---- MODULE Spec2Model ----
(***************************************************************************)
(* Model of mvstats/mvstats.py: cov, cor, reg, linregress_ND and           *)
(* detrend_ND_xr on labelled arrays with a "time" dimension.               *)
(*                                                                         *)
(* Numbers are exact.  A value is <<n, d, r>> and stands for               *)
(* (n / d) * sqrt(r), with r a squarefree positive integer, so that the    *)
(* standard deviations the code takes (square roots of rationals) and the  *)
(* quotients it forms with them are represented without rounding.          *)
(* d = 0 encodes the IEEE special values: <<0,0,1>> is NaN, <<1,0,1>> is   *)
(* +Inf and <<-1,0,1>> is -Inf.                                            *)
(***************************************************************************)
EXTENDS Integers, Sequences, FiniteSets, TLC

VARIABLES x, y, lagx, lagy, rolling_mean_window, pc, ret

vars == <<x, y, lagx, lagy, rolling_mean_window, pc, ret>>

(***************************************************************************)
(* Exact arithmetic with IEEE special values                               *)
(***************************************************************************)
Abs(i) == IF i < 0 THEN -i ELSE i

Sign(i) == IF i < 0 THEN -1 ELSE IF i = 0 THEN 0 ELSE 1

RECURSIVE GCD(_, _)
GCD(a, b) == IF b = 0 THEN a ELSE GCD(b, a % b)

NaN == <<0, 0, 1>>

Inf == <<1, 0, 1>>

Zero == <<0, 1, 1>>

One == <<1, 1, 1>>

IsNaN(v) == v[2] = 0 /\ v[1] = 0

IsFinite(v) == v[2] # 0

\* canonical form of (n / d) * sqrt(r), r squarefree
Norm(n, d, r) ==
    IF d = 0 THEN <<Sign(n), 0, 1>>
    ELSE IF n = 0 THEN Zero
    ELSE LET g == GCD(Abs(n), d)
         IN  <<Sign(n) * (Abs(n) \div g), d \div g, r>>

FromInt(i) == <<i, 1, 1>>

\* the largest s with s*s dividing m (m >= 1), searched upward from k
RECURSIVE SquarePart(_, _)
SquarePart(m, k) ==
    IF k * k > m THEN 1
    ELSE IF m % (k * k) = 0 THEN k * SquarePart(m \div (k * k), k)
    ELSE SquarePart(m, k + 1)

Mul(a, b) ==
    LET g == GCD(a[3], b[3])
    IN  Norm(a[1] * b[1] * g, a[2] * b[2], (a[3] \div g) * (b[3] \div g))

\* 1 / a; 1 / 0 is +Inf, so that v / 0 is +-Inf and 0 / 0 is NaN
Inv(a) ==
    IF a[2] = 0 THEN (IF a[1] = 0 THEN NaN ELSE Zero)
    ELSE IF a[1] = 0 THEN Inf
    ELSE Norm(Sign(a[1]) * a[2], Abs(a[1]) * a[3], a[3])

Div(a, b) == Mul(a, Inv(b))

Neg(a) == <<-a[1], a[2], a[3]>>

\* a + b for operands with the same radical (mvstats adds no others)
Add(a, b) ==
    IF IsNaN(a) \/ IsNaN(b) THEN NaN
    ELSE IF a[2] = 0 /\ b[2] = 0 THEN (IF a[1] = b[1] THEN a ELSE NaN)
    ELSE IF a[2] = 0 THEN a
    ELSE IF b[2] = 0 THEN b
    ELSE IF a[1] = 0 THEN b
    ELSE IF b[1] = 0 THEN a
    ELSE IF a[3] = b[3] THEN Norm(a[1] * b[2] + b[1] * a[2], a[2] * b[2], a[3])
    ELSE CHOOSE v \in {} : TRUE

Sub(a, b) == Add(a, Neg(b))

\* numpy sqrt of a rational: NaN below zero
Sqrt(a) ==
    IF a[2] = 0 THEN (IF a[1] = 1 THEN Inf ELSE NaN)
    ELSE IF a[1] < 0 THEN NaN
    ELSE IF a[1] = 0 THEN Zero
    ELSE LET m == a[1] * a[2]
             s == SquarePart(m, 2)
         IN  Norm(s, a[2], m \div (s * s))

(***************************************************************************)
(* Labelled arrays.  An array is [dims, time, vals]: dims the ordered       *)
(* dimension names, time the time coordinates in order, vals[i][c] the     *)
(* value at time position i in cell c (a one-dimensional array over time   *)
(* is held broadcast over the cells).  A statistic is [dims, vals] with    *)
(* vals[c] one value per cell.                                             *)
(***************************************************************************)
Range(s) == {s[i] : i \in 1..Len(s)}

\* the cells of the non-time dimension, in coordinate order
CellSeq == <<"c1", "c2">>

Cells == Range(CellSeq)

RECURSIVE SumSeq(_)
SumSeq(s) == IF s = <<>> THEN Zero ELSE Add(Head(s), SumSeq(Tail(s)))

NotNaN(v) == ~IsNaN(v)

\* dimension names of the result of a broadcasting binary operation
BDims(d1, d2) == d1 \o SelectSeq(d2, LAMBDA d : d \notin Range(d1))

DropDim(d, name) == SelectSeq(d, LAMBDA e : e # name)

\* DataArray.shift(time = k) followed by nothing else: coordinates stay,
\* data moves k positions later, vacated positions become NaN
shift(a, k) ==
    [a EXCEPT !.vals = [i \in 1..Len(a.time) |->
        IF i - k \in 1..Len(a.time) THEN a.vals[i - k] ELSE [c \in Cells |-> NaN]]]

\* the members of a set of integers in increasing order
RECURSIVE SortedSeq(_)
SortedSeq(S) ==
    IF S = {} THEN <<>>
    ELSE LET m == CHOOSE t \in S : \A u \in S : t <= u
         IN  <<m>> \o SortedSeq(S \ {m})

Take(a, idx) ==
    [a EXCEPT !.time = [j \in 1..Len(idx) |-> a.time[idx[j]]],
              !.vals = [j \in 1..Len(idx) |-> a.vals[idx[j]]]]

\* DataArray.dropna(dim = 'time', how = 'all')
dropna(a) ==
    Take(a, SortedSeq({i \in 1..Len(a.time) : \E c \in Cells : NotNaN(a.vals[i][c])}))

\* a restricted to the time coordinates it shares with b (inner join)
reindex_inner(a, b) ==
    Take(a, SortedSeq({i \in 1..Len(a.time) : a.time[i] \in Range(b.time)}))

\* faulty variant of align: the inputs are left as they are
align_skipped(a, b) == <<a, b>>

\* xr.align(a, b), join = 'inner' on the time index
align(a, b) == <<reindex_inner(a, b), reindex_inner(b, a)>>

\* the values of cell c along time
Column(a, c) == [i \in 1..Len(a.time) |-> a.vals[i][c]]

\* nanmean of a sequence of values: NaN entries skipped, NaN when none is left
NanMean(s) ==
    LET v == SelectSeq(s, NotNaN)
    IN  Div(SumSeq(v), FromInt(Len(v)))

\* nanvar, ddof = 0
NanVar(s) ==
    LET v == SelectSeq(s, NotNaN)
        m == NanMean(s)
    IN  Div(SumSeq([i \in 1..Len(v) |-> Mul(Sub(v[i], m), Sub(v[i], m))]),
            FromInt(Len(v)))

\* DataArray.mean(dim = 'time'), skipna
mean(a) ==
    [dims |-> DropDim(a.dims, "time"),
     vals |-> [c \in Cells |-> NanMean(Column(a, c))]]

\* faulty variant of std: the sample standard deviation (ddof = 1)
std_ddof1(a) ==
    [dims |-> DropDim(a.dims, "time"),
     vals |-> [c \in Cells |->
        LET k == Len(SelectSeq(Column(a, c), NotNaN))
        IN  Sqrt(Div(Mul(NanVar(Column(a, c)), FromInt(k)), FromInt(k - 1)))]]

\* DataArray.std(dim = 'time'), skipna, population
std(a) ==
    [dims |-> DropDim(a.dims, "time"),
     vals |-> [c \in Cells |-> Sqrt(NanVar(Column(a, c)))]]

\* np.sum(a, axis = 0) on a DataArray whose first dimension is time:
\* DataArray.sum, which skips NaN
npsum(a) ==
    [dims |-> Tail(a.dims),
     vals |-> [c \in Cells |-> SumSeq(SelectSeq(Column(a, c), NotNaN))]]

\* elementwise binary operations with broadcasting; two arrays meet on
\* their common time coordinates (the arithmetic join is inner)
ArrMinusStat(a, s) ==
    [dims |-> BDims(a.dims, s.dims), time |-> a.time,
     vals |-> [i \in 1..Len(a.time) |-> [c \in Cells |-> Sub(a.vals[i][c], s.vals[c])]]]

ArrPlusStat(a, s) ==
    [dims |-> BDims(a.dims, s.dims), time |-> a.time,
     vals |-> [i \in 1..Len(a.time) |-> [c \in Cells |-> Add(a.vals[i][c], s.vals[c])]]]

StatTimesArr(s, a) ==
    [dims |-> BDims(s.dims, a.dims), time |-> a.time,
     vals |-> [i \in 1..Len(a.time) |-> [c \in Cells |-> Mul(s.vals[c], a.vals[i][c])]]]

ArrTimesArr(a, b) ==
    LET aj == reindex_inner(a, b)
        bj == reindex_inner(b, a)
    IN  [dims |-> BDims(a.dims, b.dims), time |-> aj.time,
         vals |-> [i \in 1..Len(aj.time) |->
                     [c \in Cells |-> Mul(aj.vals[i][c], bj.vals[i][c])]]]

ArrMinusArr(a, b) ==
    LET aj == reindex_inner(a, b)
        bj == reindex_inner(b, a)
    IN  [dims |-> BDims(a.dims, b.dims), time |-> aj.time,
         vals |-> [i \in 1..Len(aj.time) |->
                     [c \in Cells |-> Sub(aj.vals[i][c], bj.vals[i][c])]]]

StatTimesStat(s, t) ==
    [dims |-> BDims(s.dims, t.dims), vals |-> [c \in Cells |-> Mul(s.vals[c], t.vals[c])]]

StatOverStat(s, t) ==
    [dims |-> BDims(s.dims, t.dims), vals |-> [c \in Cells |-> Div(s.vals[c], t.vals[c])]]

StatMinusStat(s, t) ==
    [dims |-> BDims(s.dims, t.dims), vals |-> [c \in Cells |-> Sub(s.vals[c], t.vals[c])]]

\* faulty variant of DivN: the sample statistic, denominator n - 1
DivN_ddof1(s, n) == [s EXCEPT !.vals = [c \in Cells |-> Div(s.vals[c], FromInt(n - 1))]]

\* statistic / n with n a Python int: numpy division, never an exception
DivN(s, n) == [s EXCEPT !.vals = [c \in Cells |-> Div(s.vals[c], FromInt(n))]]

\* faulty variant of lagged: the data is shifted the other way
lagged_forward(a, lag) == IF lag # 0 THEN dropna(shift(a, lag)) ELSE a

\* x.shift(time = -lag).dropna(dim = 'time', how = 'all') when lag != 0
lagged(a, lag) == IF lag # 0 THEN dropna(shift(a, -lag)) ELSE a

(***************************************************************************)
(* The functions of mvstats.py                                             *)
(***************************************************************************)
cov(x0, y0, lagx0, lagy0) ==
    LET al    == align(lagged(x0, lagx0), lagged(y0, lagy0))
        xa    == al[1]
        ya    == al[2]
        n     == Len(xa.time)
        xmean == mean(xa)
        ymean == mean(ya)
    IN  DivN(npsum(ArrTimesArr(ArrMinusStat(xa, xmean), ArrMinusStat(ya, ymean))), n)

cor(x0, y0, lagx0, lagy0) ==
    LET al    == align(lagged(x0, lagx0), lagged(y0, lagy0))
        xa    == al[1]
        ya    == al[2]
        n     == Len(xa.time)
        xmean == mean(xa)
        ymean == mean(ya)
        xstd  == std(xa)
        ystd  == std(ya)
        cov_  == DivN(npsum(ArrTimesArr(ArrMinusStat(xa, xmean),
                                        ArrMinusStat(ya, ymean))), n)
    IN  StatOverStat(cov_, StatTimesStat(xstd, ystd))

reg(x0, y0, lagx0, lagy0) ==
    LET al    == align(lagged(x0, lagx0), lagged(y0, lagy0))
        xa    == al[1]
        ya    == al[2]
        n     == Len(xa.time)
        xmean == mean(xa)
        ymean == mean(ya)
        xstd  == std(xa)
        cov_  == DivN(npsum(ArrTimesArr(ArrMinusStat(xa, xmean),
                                        ArrMinusStat(ya, ymean))), n)
        slope == StatOverStat(cov_, StatTimesStat(xstd, xstd))
        intercept == StatMinusStat(ymean, StatTimesStat(xmean, slope))
    IN  [slope |-> slope, intercept |-> intercept]

\* np.abs
AbsVal(v) == <<Abs(v[1]), v[2], v[3]>>

\* scipy.stats.t.sf(t, df) * 2 is not computed: a p-value is kept as its
\* arguments; it is NaN when t is NaN or df <= 0
Pval(t, df) == [t |-> AbsVal(t), df |-> df]

PvalIsNaN(p) == IsNaN(p.t) \/ p.df <= 0

\* faulty variant of linregress_ND: the covariance is the sample covariance
linregress_ND_ddof1(x0, y0, lagx0, lagy0) ==
    LET al    == align(lagged(x0, lagx0), lagged(y0, lagy0))
        xa    == al[1]
        ya    == al[2]
        n     == Len(xa.time)
        xmean == mean(xa)
        ymean == mean(ya)
        xstd  == std(xa)
        ystd  == std(ya)
        cov_  == DivN(npsum(ArrTimesArr(ArrMinusStat(xa, xmean),
                                        ArrMinusStat(ya, ymean))), n - 1)
        cor_  == StatOverStat(cov_, StatTimesStat(xstd, ystd))
        slope == StatOverStat(cov_, StatTimesStat(xstd, xstd))
        intercept == StatMinusStat(ymean, StatTimesStat(xmean, slope))
        tstats == [cor_ EXCEPT !.vals = [c \in Cells |->
                     Div(Mul(cor_.vals[c], Sqrt(FromInt(n - 2))),
                         Sqrt(Sub(One, Mul(cor_.vals[c], cor_.vals[c]))))]]
        stderr == StatOverStat(slope, tstats)
        pval   == [dims |-> cor_.dims,
                   vals |-> [c \in Cells |-> Pval(tstats.vals[c], n - 2)]]
    IN  [cov |-> cov_, cor |-> cor_, slope |-> slope, intercept |-> intercept,
         pval |-> pval, stderr |-> stderr]

linregress_ND(x0, y0, lagx0, lagy0) ==
    LET al    == align(lagged(x0, lagx0), lagged(y0, lagy0))
        xa    == al[1]
        ya    == al[2]
        n     == Len(xa.time)
        xmean == mean(xa)
        ymean == mean(ya)
        xstd  == std(xa)
        ystd  == std(ya)
        cov_  == DivN(npsum(ArrTimesArr(ArrMinusStat(xa, xmean),
                                        ArrMinusStat(ya, ymean))), n)
        cor_  == StatOverStat(cov_, StatTimesStat(xstd, ystd))
        slope == StatOverStat(cov_, StatTimesStat(xstd, xstd))
        intercept == StatMinusStat(ymean, StatTimesStat(xmean, slope))
        tstats == [cor_ EXCEPT !.vals = [c \in Cells |->
                     Div(Mul(cor_.vals[c], Sqrt(FromInt(n - 2))),
                         Sqrt(Sub(One, Mul(cor_.vals[c], cor_.vals[c]))))]]
        stderr == StatOverStat(slope, tstats)
        pval   == [dims |-> cor_.dims,
                   vals |-> [c \in Cells |-> Pval(tstats.vals[c], n - 2)]]
    IN  [cov |-> cov_, cor |-> cor_, slope |-> slope, intercept |-> intercept,
         pval |-> pval, stderr |-> stderr]

\* DataArray.rolling(time = w, center = True).mean() for w >= 1: the window
\* of position i is i - w \div 2 .. i + (w - 1) - w \div 2, and the mean is
\* NaN unless all w positions exist and hold a value (min_periods = w)
rolling_mean(a, w) ==
    [a EXCEPT !.vals = [i \in 1..Len(a.time) |-> [c \in Cells |->
        LET lo == i - (w \div 2)
            hi == i + (w - 1) - (w \div 2)
        IN  IF lo >= 1 /\ hi <= Len(a.time)
               /\ \A j \in lo..hi : NotNaN(a.vals[j][c])
            THEN Div(SumSeq([j \in 1..w |-> a.vals[lo + j - 1][c]]), FromInt(w))
            ELSE NaN]]]

\* xr.DataArray(np.arange(y.shape[0]), dims = ['time'], coords = [y.time])
index_array(a) ==
    [dims |-> <<"time">>, time |-> a.time,
     vals |-> [i \in 1..Len(a.time) |-> [c \in Cells |-> FromInt(i - 1)]]]

\* DataArray.mean() without dim: over every dimension, skipna
mean_all(a) ==
    LET nc  == Len(CellSeq)
        all == [k \in 1..(Len(a.time) * nc) |->
                  a.vals[((k - 1) \div nc) + 1][CellSeq[((k - 1) % nc) + 1]]]
    IN  [dims |-> <<>>, vals |-> [c \in Cells |-> NanMean(all)]]

\* rolling() raises ValueError("window must be > 0") for a window <= 0
\* faulty variant of detrend_ND_xr: the smoothed series has its undefined ends
\* dropped and the index array is built on what is left
detrend_ND_xr_trimmed(y0, w) ==
    IF w <= 0 THEN [raised |-> "ValueError"]
    ELSE
    LET y_deseason == dropna(rolling_mean(y0, w))
        xi         == index_array(y_deseason)
        r          == reg(xi, y_deseason, 0, 0)
        y_trend    == ArrPlusStat(StatTimesArr(r.slope, xi), r.intercept)
        det        == ArrPlusStat(ArrMinusArr(y0, y_trend), mean_all(y0))
    IN  [raised |-> "no", det |-> det, y_deseason |-> y_deseason, x |-> xi,
         slope |-> r.slope, intercept |-> r.intercept]

\* the record returned holds det, the value returned, and beside it the
\* locals y_deseason, x, slope and intercept as they stand at the return
detrend_ND_xr(y0, w) ==
    IF w <= 0 THEN [raised |-> "ValueError"]
    ELSE
    LET y_deseason == rolling_mean(y0, w)
        xi         == index_array(y0)
        r          == reg(xi, y_deseason, 0, 0)
        y_trend    == ArrPlusStat(StatTimesArr(r.slope, xi), r.intercept)
        det        == ArrPlusStat(ArrMinusArr(y0, y_trend), mean_all(y0))
    IN  [raised |-> "no", det |-> det, y_deseason |-> y_deseason, x |-> xi,
         slope |-> r.slope, intercept |-> r.intercept]

\* faulty variant of stats_raise: the division by n done on Python numbers
stats_raise_zero_division(n) == IF n = 0 THEN "ZeroDivisionError" ELSE "no"

\* what cov, cor, reg and linregress_ND raise on n aligned time positions:
\* nothing; n, n - 2 and the zero deviations only enter numpy operations
\* (division, sqrt, mean of an empty slice), which warn and return NaN or Inf
stats_raise(n) == "no"

(***************************************************************************)
(* Inputs and calls                                                        *)
(***************************************************************************)
MaxT == 3

MaxVal == 2

MaxValDetrend == 1

\* strictly increasing sequences of time coordinates drawn from 0..MaxT-1
TimeCoords == {SortedSeq(S) : S \in (SUBSET (0..(MaxT - 1))) \ {{}}}

Vals == {FromInt(v) : v \in 0..MaxVal}

\* one-dimensional arrays over time, no missing value
Arrays1D ==
    UNION {{[dims |-> <<"time">>, time |-> t,
             vals |-> [i \in 1..Len(t) |-> [c \in Cells |-> f[i]]]]
            : f \in [1..Len(t) -> Vals]} : t \in TimeCoords}

\* arrays with dimensions (time, cell), no missing value, the inputs of
\* detrend_ND_xr
Arrays2D ==
    UNION {[dims : {<<"time", "cell">>}, time : {t},
            vals : [1..Len(t) -> [Cells -> {FromInt(v) : v \in 0..MaxValDetrend}]]]
           : t \in TimeCoords}

Lags == (-1)..MaxT

\* number of time positions left after lagging and aligning
n_aligned(x0, y0, lagx0, lagy0) ==
    Len(align(lagged(x0, lagx0), lagged(y0, lagy0))[1].time)

returned(raised, out) ==
    IF raised = "no" THEN [raised |-> "no", out |-> out] ELSE [raised |-> raised]

Init ==
    /\ x \in Arrays1D
    /\ y \in Arrays1D
    /\ lagx = 0 /\ lagy = 0
    /\ rolling_mean_window = 0
    /\ pc = "init"
    /\ ret = <<>>

call_cov ==
    /\ pc = "init"
    /\ \E lx \in Lags, ly \in Lags :
         /\ lagx' = lx /\ lagy' = ly
         /\ ret' = returned(stats_raise(n_aligned(x, y, lx, ly)), cov(x, y, lx, ly))
    /\ pc' = "cov"
    /\ UNCHANGED <<x, y, rolling_mean_window>>

call_cor ==
    /\ pc = "init"
    /\ \E lx \in Lags, ly \in Lags :
         /\ lagx' = lx /\ lagy' = ly
         /\ ret' = returned(stats_raise(n_aligned(x, y, lx, ly)), cor(x, y, lx, ly))
    /\ pc' = "cor"
    /\ UNCHANGED <<x, y, rolling_mean_window>>

call_reg ==
    /\ pc = "init"
    /\ \E lx \in Lags, ly \in Lags :
         /\ lagx' = lx /\ lagy' = ly
         /\ ret' = returned(stats_raise(n_aligned(x, y, lx, ly)), reg(x, y, lx, ly))
    /\ pc' = "reg"
    /\ UNCHANGED <<x, y, rolling_mean_window>>

call_linregress_ND ==
    /\ pc = "init"
    /\ \E lx \in Lags, ly \in Lags :
         /\ lagx' = lx /\ lagy' = ly
         /\ ret' = returned(stats_raise(n_aligned(x, y, lx, ly)),
                            linregress_ND(x, y, lx, ly))
    /\ pc' = "linregress_ND"
    /\ UNCHANGED <<x, y, rolling_mean_window>>

Next == call_cov \/ call_cor \/ call_reg \/ call_linregress_ND

Spec == Init /\ [][Next]_vars

\* the calls with one array passed as both x and y
InitSelf ==
    /\ x \in Arrays1D
    /\ y = x
    /\ lagx = 0 /\ lagy = 0
    /\ rolling_mean_window = 0
    /\ pc = "init"
    /\ ret = <<>>

SpecSelf == InitSelf /\ [][Next]_vars

\* detrend_ND_xr takes y and a window; x is the index array it builds
InitDetrend ==
    /\ y \in Arrays2D
    /\ x = <<>>
    /\ lagx = 0 /\ lagy = 0
    /\ rolling_mean_window = 0
    /\ pc = "init"
    /\ ret = <<>>

call_detrend_ND_xr ==
    /\ pc = "init"
    /\ \E w \in 0..Len(y.time) :
         /\ rolling_mean_window' = w
         /\ ret' = detrend_ND_xr(y, w)
    /\ x' = index_array(y)
    /\ pc' = "detrend_ND_xr"
    /\ UNCHANGED <<y, lagx, lagy>>

NextDetrend == call_detrend_ND_xr

SpecDetrend == InitDetrend /\ [][NextDetrend]_vars

(***************************************************************************)
(* Quantities the claims speak of, computed from the inputs by coordinate  *)
(* (the inputs hold integers, so these are integer sums)                   *)
(***************************************************************************)
Common(a, b) == Range(a.time) \cap Range(b.time)

\* the integer a holds at time coordinate t in cell c
At(a, t, c) == a.vals[CHOOSE i \in 1..Len(a.time) : a.time[i] = t][c][1]

RECURSIVE SumOver(_, _)
SumOver(S, f) ==
    IF S = {} THEN 0
    ELSE LET t == CHOOSE u \in S : TRUE IN f[t] + SumOver(S \ {t}, f)

\* population covariance of a and b over the coordinates in S:
\* (n * sum(a*b) - sum(a) * sum(b)) / n^2
PopCov(a, b, S, c) ==
    LET n == Cardinality(S)
    IN  Norm(n * SumOver(S, [t \in S |-> At(a, t, c) * At(b, t, c)])
               - SumOver(S, [t \in S |-> At(a, t, c)])
                 * SumOver(S, [t \in S |-> At(b, t, c)]),
             n * n, 1)

PopVar(a, S, c) == PopCov(a, a, S, c)

PopMean(a, S, c) == Norm(SumOver(S, [t \in S |-> At(a, t, c)]), Cardinality(S), 1)

\* IEEE equality: NaN equals nothing
EqNum(a, b) == ~IsNaN(a) /\ ~IsNaN(b) /\ a = b

NoLag == lagx = 0 /\ lagy = 0

\* C1: with zero lags, cov(x, y) is, in each cell, the population covariance
\* (denominator n) over the time coordinates present in both x and y, the
\* means taken over those same positions; the result has no time dimension.
C1_cov_population_inner_join ==
    (pc = "cov" /\ NoLag) =>
        /\ ret.raised = "no"
        /\ "time" \notin Range(ret.out.dims)
        /\ \A c \in Cells : ret.out.vals[c] = PopCov(x, y, Common(x, y), c)

\* a cov call with zero lags on inputs whose time coordinates differ, two
\* of them shared, and a non-zero covariance
C1_witness ==
    /\ pc = "cov" /\ NoLag
    /\ x.time # y.time
    /\ Cardinality(Common(x, y)) = 2
    /\ \E c \in Cells : IsFinite(ret.out.vals[c]) /\ ret.out.vals[c][1] < 0

\* y' built by hand: y'(t_i) = y(t_{i+L}) on the first T - L coordinates
HandShifted(a, L) ==
    [a EXCEPT !.time = SubSeq(a.time, 1, Len(a.time) - L),
              !.vals = [i \in 1..(Len(a.time) - L) |-> a.vals[i + L]]]

\* C2: for 0 < L < T, cov(x, y, lagx=0, lagy=L) equals the unlagged
\* cov(x, y') with y' the hand-shifted y restricted to its first T - L
\* time coordinates.
C2_lagged_cov_equals_hand_shift ==
    (pc = "cov" /\ lagx = 0 /\ lagy > 0 /\ lagy < Len(y.time)) =>
        /\ ret.raised = "no"
        /\ ret.out = cov(x, HandShifted(y, lagy), 0, 0)

\* a cov call with lagy = 1 on x and y of the same three coordinates, with
\* a non-zero lagged covariance
C2_witness ==
    /\ pc = "cov" /\ lagx = 0 /\ lagy = 1
    /\ Len(y.time) = 3 /\ x.time = y.time
    /\ \E c \in Cells : IsFinite(ret.out.vals[c]) /\ ret.out.vals[c][1] # 0

\* the two identities of reg in cell c
RegIdentities(c) ==
    LET S == Common(x, y)
    IN  /\ EqNum(ret.out.slope.vals[c],
                 Div(cov(x, y, 0, 0).vals[c], PopVar(x, S, c)))
        /\ EqNum(PopMean(y, S, c),
                 Add(Mul(ret.out.slope.vals[c], PopMean(x, S, c)),
                     ret.out.intercept.vals[c]))

\* C3 as stated: for every x and y, in every cell, slope == cov(x, y) /
\* variance(x) and mean(y) == slope * mean(x) + intercept.
C3_reg_identities_every_input ==
    (pc = "reg" /\ NoLag) => \A c \in Cells : RegIdentities(c)

VarDefinedNonZero(a, S, c) == IsFinite(PopVar(a, S, c)) /\ PopVar(a, S, c)[1] # 0

\* C3 amended: for every x and y without missing values, in every cell
\* where the population variance of x over the aligned time positions is
\* defined and not zero, slope == cov(x, y) / variance(x) and
\* mean(y) == slope * mean(x) + intercept.
C3_reg_identities_nonzero_variance ==
    (pc = "reg" /\ NoLag) =>
        /\ ret.raised = "no"
        /\ \A c \in Cells : VarDefinedNonZero(x, Common(x, y), c) => RegIdentities(c)

\* a reg call on inputs with non-constant x, returning a non-zero slope
\* and a non-zero intercept
C3_witness ==
    /\ pc = "reg" /\ NoLag
    /\ \E c \in Cells :
         /\ VarDefinedNonZero(x, Common(x, y), c)
         /\ IsFinite(ret.out.slope.vals[c]) /\ ret.out.slope.vals[c][1] < 0
         /\ IsFinite(ret.out.intercept.vals[c]) /\ ret.out.intercept.vals[c][1] # 0

\* C4: the covariance, correlation, slope and intercept of linregress_ND
\* are those of the standalone cov, cor and reg called on the same inputs
\* with the same lags (an undefined value matching an undefined value).
C4_linregress_matches_standalone ==
    (pc = "linregress_ND") =>
        /\ ret.raised = "no"
        /\ ret.out.cov = cov(x, y, lagx, lagy)
        /\ ret.out.cor = cor(x, y, lagx, lagy)
        /\ ret.out.slope = reg(x, y, lagx, lagy).slope
        /\ ret.out.intercept = reg(x, y, lagx, lagy).intercept

\* a linregress_ND call with zero lags on three aligned positions whose
\* correlation is defined and is neither 0 nor +-1
C4_witness ==
    /\ pc = "linregress_ND" /\ NoLag
    /\ Cardinality(Common(x, y)) = 3
    /\ \E c \in Cells :
         /\ IsFinite(ret.out.cor.vals[c])
         /\ ret.out.cor.vals[c][1] # 0
         /\ ret.out.cor.vals[c] \notin {One, Neg(One)}

StatCalls == {"cov", "cor", "reg", "linregress_ND"}

\* x after lagging and alignment, as the statistics see it
AlignedX == align(lagged(x, lagx), lagged(y, lagy))[1]

XConstant(c) ==
    /\ Len(AlignedX.time) >= 1
    /\ \A i \in 1..Len(AlignedX.time) : AlignedX.vals[i][c] = AlignedX.vals[1][c]

LagRemovesAll == Abs(lagx) >= Len(x.time) \/ Abs(lagy) >= Len(y.time)

Undefined(v) == ~IsFinite(v)

\* every number returned for cell c is NaN or Inf
AllUndefined(c) ==
    /\ pc \in {"cov", "cor"} => Undefined(ret.out.vals[c])
    /\ pc = "reg" =>
         Undefined(ret.out.slope.vals[c]) /\ Undefined(ret.out.intercept.vals[c])
    /\ pc = "linregress_ND" =>
         /\ Undefined(ret.out.cov.vals[c]) /\ Undefined(ret.out.cor.vals[c])
         /\ Undefined(ret.out.slope.vals[c]) /\ Undefined(ret.out.intercept.vals[c])
         /\ Undefined(ret.out.stderr.vals[c]) /\ PvalIsNaN(ret.out.pval.vals[c])

\* C6: cov, cor, reg and linregress_ND raise nothing on a degenerate input.
\* When no time position is left (a lag of magnitude at least the series
\* length among the causes) every value returned is NaN or Inf; when x is
\* constant over time the correlation and the slope are; when fewer than
\* three positions are left the p-value and standard error are.
C6_degenerate_inputs_return_undefined ==
    (pc \in StatCalls) =>
        /\ ret.raised = "no"
        /\ \A c \in Cells :
             /\ (LagRemovesAll \/ Len(AlignedX.time) = 0) => AllUndefined(c)
             /\ (XConstant(c) /\ pc = "cor") => Undefined(ret.out.vals[c])
             /\ (XConstant(c) /\ pc = "reg") => Undefined(ret.out.slope.vals[c])
             /\ (XConstant(c) /\ pc = "linregress_ND") =>
                    Undefined(ret.out.cor.vals[c]) /\ Undefined(ret.out.slope.vals[c])
             /\ (Len(AlignedX.time) < 3 /\ pc = "linregress_ND") =>
                    PvalIsNaN(ret.out.pval.vals[c]) /\ Undefined(ret.out.stderr.vals[c])

\* linregress_ND returned, without raising, after a lag as long as y
\* removed every time position of a three-position y
C6_witness ==
    /\ pc = "linregress_ND"
    /\ Len(y.time) = 3 /\ lagy = 3 /\ lagx = 0
    /\ ret.raised = "no"
    /\ \A c \in Cells : IsNaN(ret.out.cov.vals[c]) /\ PvalIsNaN(ret.out.pval.vals[c])

\* cor returned NaN, without raising, for an x constant over three positions
C6_witness_constant_x ==
    /\ pc = "cor" /\ NoLag
    /\ Len(AlignedX.time) = 3
    /\ \A c \in Cells : XConstant(c) /\ IsNaN(ret.out.vals[c])

\* linregress_ND on two aligned positions: slope defined, p-value NaN
C6_witness_two_positions ==
    /\ pc = "linregress_ND" /\ NoLag
    /\ Len(AlignedX.time) = 2
    /\ \A c \in Cells :
         /\ IsFinite(ret.out.slope.vals[c]) /\ ret.out.slope.vals[c][1] # 0
         /\ PvalIsNaN(ret.out.pval.vals[c]) /\ IsNaN(ret.out.stderr.vals[c])

AllTimes(a) == Range(a.time)

\* C9 as stated: for all x, cor(x, x) == 1 in every cell and cov(x, x) is
\* the population variance of x over time in every cell.
C9_self_correlation_every_input ==
    /\ (pc = "cor" /\ NoLag /\ y = x) =>
          \A c \in Cells : EqNum(ret.out.vals[c], One)
    /\ (pc = "cov" /\ NoLag /\ y = x) =>
          \A c \in Cells : EqNum(ret.out.vals[c], PopVar(x, AllTimes(x), c))

\* C9 amended: for all x without missing values, cov(x, x) is the
\* population variance of x over time in every cell, and cor(x, x) == 1
\* in every cell where that variance is not zero.
C9_self_correlation_nonzero_variance ==
    /\ (pc = "cor" /\ NoLag /\ y = x) =>
          /\ ret.raised = "no"
          /\ \A c \in Cells : VarDefinedNonZero(x, AllTimes(x), c)
                                 => EqNum(ret.out.vals[c], One)
    /\ (pc = "cov" /\ NoLag /\ y = x) =>
          /\ ret.raised = "no"
          /\ \A c \in Cells : EqNum(ret.out.vals[c], PopVar(x, AllTimes(x), c))

\* cor(x, x) returned 1 for a three-position x whose variance is not a
\* perfect square (its standard deviation is irrational)
C9_witness ==
    /\ pc = "cor" /\ NoLag /\ y = x
    /\ Len(x.time) = 3
    /\ \A c \in Cells :
         /\ VarDefinedNonZero(x, AllTimes(x), c)
         /\ Sqrt(PopVar(x, AllTimes(x), c))[3] # 1
         /\ ret.out.vals[c] = One

(***************************************************************************)
(* Claims about detrend_ND_xr, checked under SpecDetrend                   *)
(***************************************************************************)
Detrended == pc = "detrend_ND_xr"

\* y(t) = a + b * t in cell c: equal successive differences
Linear(a, c) ==
    \A i \in 2..(Len(a.time) - 1) :
        a.vals[i + 1][c][1] - a.vals[i][c][1] = a.vals[i][c][1] - a.vals[i - 1][c][1]

\* C5: detrend_ND_xr(y) with the default rolling_mean_window = 0 applies
\* no smoothing and, for a pure linear series, returns mean(y) at every
\* time position.
C5_default_window_removes_linear_trend ==
    (Detrended /\ rolling_mean_window = 0 /\ \A c \in Cells : Linear(y, c)) =>
        /\ ret.raised = "no"
        /\ \A i \in 1..Len(y.time) : \A c \in Cells :
             EqNum(ret.det.vals[i][c], PopMean(y, AllTimes(y), c))

TimeMean(a, c) == Div(SumSeq(Column(a, c)), FromInt(Len(a.time)))

\* C8: with the trend fitted to the unsmoothed series (window 1), the
\* time-mean of detrend_ND_xr(y) in each cell equals the time-mean of y in
\* that cell (stated for series of at least two positions, where the fit
\* is defined).
C8_detrend_preserves_cell_mean ==
    (Detrended /\ rolling_mean_window = 1 /\ Len(y.time) >= 2) =>
        /\ ret.raised = "no"
        /\ \A c \in Cells : EqNum(TimeMean(ret.det, c), PopMean(y, AllTimes(y), c))

\* positions where the centered moving average is defined in cell c
Defined(c) == {i \in 1..Len(y.time) : NotNaN(ret.y_deseason.vals[i][c])}

RECURSIVE SumValOver(_, _)
SumValOver(S, f) ==
    IF S = {} THEN Zero
    ELSE LET t == CHOOSE u \in S : TRUE IN Add(f[t], SumValOver(S \ {t}, f))

\* least-squares fit of y_deseason on the index over the positions in D
FitMeanX(D) == Div(SumValOver(D, [i \in D |-> FromInt(i - 1)]), FromInt(Cardinality(D)))

FitMeanY(D, c) ==
    Div(SumValOver(D, [i \in D |-> ret.y_deseason.vals[i][c]]), FromInt(Cardinality(D)))

FitSlope(D, c) ==
    Div(SumValOver(D, [i \in D |-> Mul(Sub(FromInt(i - 1), FitMeanX(D)),
                                       Sub(ret.y_deseason.vals[i][c], FitMeanY(D, c)))]),
        SumValOver(D, [i \in D |-> Mul(Sub(FromInt(i - 1), FitMeanX(D)),
                                       Sub(FromInt(i - 1), FitMeanX(D)))]))

\* C10: for a window > 1, the slope and intercept detrend_ND_xr gets from
\* reg are those of the least-squares fit over the positions where the
\* moving average is defined: n, mean_x, variance_x and the covariance sum
\* all taken over that subset (stated where the subset has two positions
\* or more, so that the fit exists).
C10_fit_restricted_to_defined_positions ==
    (Detrended /\ rolling_mean_window > 1) =>
        /\ ret.raised = "no"
        /\ \A c \in Cells : Cardinality(Defined(c)) >= 2 =>
             /\ EqNum(ret.slope.vals[c], FitSlope(Defined(c), c))
             /\ EqNum(ret.intercept.vals[c],
                      Sub(FitMeanY(Defined(c), c),
                          Mul(FitMeanX(Defined(c)), FitSlope(Defined(c), c))))
====
